---- MODULE Spec2Model ----
(***************************************************************************)
(* Reminder bot: the reminder store (bot.py, migrations.py), the           *)
(* scheduler with its timer table active_reminders, the timer callback     *)
(* send_reminder, the chat handlers that create and cancel reminders and   *)
(* the start-up sweep handle_missed_reminders.                             *)
(*                                                                         *)
(* Time is a count of ticks; DayLen ticks make one day.  Every datetime    *)
(* the store holds is timezone-aware (handle_message localizes it before   *)
(* save_reminder, isoformat/fromisoformat keep the offset), so a stored    *)
(* time is an absolute instant and is modelled by its tick.                *)
(***************************************************************************)
EXTENDS Integers, Sequences, FiniteSets, TLC

\* ------------------------------------------------------------------ bounds
MaxIds == 3
MaxTime == 3
MaxTimers == 2
MaxRestarts == 1
\* users.max_reminders: the schema default, scaled down so that the quota is met
DefaultMaxReminders == 2

\* ticks per day
DayLen == 2

Ids == 1..MaxIds
Users == {"u1"}
Messages == {"m1"}
None == "None"
\* SQL NULL of recurrence_interval and of parent_reminder_id
Null == 0
\* SQL NULL of recurrence_end_date
NoEnd == 0 - 1

VARIABLES
    users,              \* table users: user_id -> row (exists FALSE: no row)
    rows,               \* table reminders: id -> row (status "absent": no row)
    nextId,             \* the next fresh reminder id (uuid4)
    active_reminders,   \* reminder id -> handle of the timer of its entry, 0: no entry
    timers,             \* threading.Timer objects by handle, with their thread's position
    main,               \* the main / dispatcher thread: position and locals
    now,                \* the clock
    sink,               \* history: deliveries of each reminder id handed to the delivery sink
    hist,               \* history: what happened to each reminder id
    ret,                \* history: the last call of save_reminder and what it returned
    boots               \* process restarts so far

vars == <<users, rows, nextId, active_reminders, timers, main, now, sink, hist, ret, boots>>

\* ------------------------------------------------------------------ store
NoUser == [exists |-> FALSE, reminder_count |-> 0, max_reminders |-> 0]

NoRow == [user |-> None, message |-> None, priority |-> None, time |-> 0,
          status |-> "absent", rtype |-> None, interval |-> Null,
          parent |-> Null, recEnd |-> NoEnd]

Terminal == {"completed", "cancelled"}

Pending(rs, u) == {i \in Ids : rs[i].status = "pending" /\ rs[i].user = u}

\* migrations.py 004: trigger update_reminder_count_insert
TrigInsert(us, new) ==
    IF new.status = "pending" /\ us[new.user].exists
    THEN [us EXCEPT ![new.user].reminder_count = @ + 1]
    ELSE us

\* migrations.py 004: trigger update_reminder_count_delete
TrigUpdateAnyChange(us, old, new) ==
    IF old.status = "pending" /\ us[new.user].exists
    THEN [us EXCEPT ![new.user].reminder_count = @ - 1]
    ELSE us

TrigUpdate(us, old, new) ==
    IF new.status # "pending" /\ old.status = "pending" /\ us[new.user].exists
    THEN [us EXCEPT ![new.user].reminder_count = @ - 1]
    ELSE us

\* set_user_timezone: insert with the column defaults, or update the timezone
UsersAfterSetTimezone(us, u) ==
    IF ~us[u].exists
    THEN [us EXCEPT ![u] = [exists |-> TRUE, reminder_count |-> 0,
                            max_reminders |-> DefaultMaxReminders]]
    ELSE us

\* save_reminder, lines 93-99: the quota check
QuotaReachedStrict(user) == user.reminder_count > user.max_reminders

QuotaReached(user) == user.reminder_count >= user.max_reminders

SaveCheck(us, u) ==
    IF ~us[u].exists THEN "DatabaseError"
    ELSE IF QuotaReached(us[u]) THEN "ReminderLimitError"
    ELSE "ok"

\* save_reminder, lines 101-108: the row as inserted (status takes its default)
NewRow(u, f, parent) ==
    [user |-> u, message |-> f.message, priority |-> f.priority, time |-> f.time,
     status |-> "pending", rtype |-> f.rtype, interval |-> f.interval,
     parent |-> parent, recEnd |-> NoEnd]

RowsNotInserted(rs, id, row) == rs

RowsAfterInsert(rs, id, row) == [rs EXCEPT ![id] = row]
UsersAfterInsert(us, row) == TrigInsert(us, row)

\* the WHERE clause of delete_reminder, mark_reminder_complete, update_reminder:
\* `if user_id:` adds the owner filter
WhereAnyStatus(row, uid) ==
    /\ row.status # "absent"
    /\ (uid # None => row.user = uid)

WherePending(row, uid) ==
    /\ row.status = "pending"
    /\ (uid # None => row.user = uid)

DeleteWhere(row, uid) == WherePending(row, uid)

MarkWhereAnyStatus(row) == WhereAnyStatus(row, None)

MarkWhere(row) == WherePending(row, None)

UpdateWhereAnyStatus(row, uid) ==
    /\ row.status # "absent"
    /\ (uid # None => row.user = uid)

UpdateWhere(row, uid) == WherePending(row, uid)

SetStatus(rs, id, st) == [rs EXCEPT ![id].status = st]

\* delete_reminder
DeleteHits(rs, id, uid) == DeleteWhere(rs[id], uid)
RowsAfterDelete(rs, id, uid) ==
    IF DeleteHits(rs, id, uid) THEN SetStatus(rs, id, "cancelled") ELSE rs
UsersAfterDelete(us, rs, id, uid) ==
    IF DeleteHits(rs, id, uid)
    THEN TrigUpdate(us, rs[id], [rs[id] EXCEPT !.status = "cancelled"])
    ELSE us

\* mark_reminder_complete
MarkHits(rs, id) == MarkWhere(rs[id])
RowsAfterMark(rs, id) ==
    IF MarkHits(rs, id) THEN SetStatus(rs, id, "completed") ELSE rs
UsersAfterMark(us, rs, id) ==
    IF MarkHits(rs, id)
    THEN TrigUpdate(us, rs[id], [rs[id] EXCEPT !.status = "completed"])
    ELSE us

\* update_reminder: `updates` holds the keyword arguments whose value is not
\* None (lines 237-243 skip the others) in upd.set, and their values.  The
\* keywords are column names, any column: status too.
NoUpdates == [set |-> {}, message |-> None, priority |-> None, time |-> 0,
              rtype |-> None, interval |-> Null, status |-> None, recEnd |-> NoEnd]

ApplyUpdates(row, upd) ==
    [row EXCEPT
        !.status = IF "status" \in upd.set THEN upd.status ELSE @,
        !.message = IF "message" \in upd.set THEN upd.message ELSE @,
        !.priority = IF "priority" \in upd.set THEN upd.priority ELSE @,
        !.time = IF "reminder_time" \in upd.set THEN upd.time ELSE @,
        !.rtype = IF "recurrence_type" \in upd.set THEN upd.rtype ELSE @,
        !.interval = IF "recurrence_interval" \in upd.set THEN upd.interval ELSE @,
        !.recEnd = IF "recurrence_end_date" \in upd.set THEN upd.recEnd ELSE @]

UpdateHits(rs, id, uid, upd) == upd.set # {} /\ UpdateWhere(rs[id], uid)
RowsAfterUpdate(rs, id, uid, upd) ==
    IF UpdateHits(rs, id, uid, upd)
    THEN [rs EXCEPT ![id] = ApplyUpdates(rs[id], upd)]
    ELSE rs
UsersAfterUpdate(us, rs, id, uid, upd) ==
    IF UpdateHits(rs, id, uid, upd)
    THEN TrigUpdate(us, rs[id], ApplyUpdates(rs[id], upd))
    ELSE us

\* cleanup_old_reminders: the rows deleted for a cutoff
CleanupHits(rs, cutoff) ==
    {i \in Ids : rs[i].status \in Terminal /\ rs[i].time < cutoff}
RowsAfterCleanup(rs, cutoff) ==
    [i \in Ids |-> IF i \in CleanupHits(rs, cutoff) THEN NoRow ELSE rs[i]]

\* get_reminder_by_id: the row when it is pending, else None
GetReminderById(rs, id, uid) ==
    IF WherePending(rs[id], uid) THEN rs[id] ELSE NoRow

\* get_all_pending_reminders: ids of the pending rows of known users, by
\* reminder_time ascending (equal times in rowid order)
RECURSIVE SortedIds(_, _)
SortedIds(rs, S) ==
    IF S = {} THEN << >>
    ELSE LET m == CHOOSE i \in S : \A j \in S :
                      \/ rs[i].time < rs[j].time
                      \/ (rs[i].time = rs[j].time /\ i <= j)
         IN <<m>> \o SortedIds(rs, S \ {m})

GetAllPendingReminders(us, rs) ==
    SortedIds(rs, {i \in Ids : rs[i].status = "pending" /\ us[rs[i].user].exists})

\* ------------------------------------------------------------------ recurrence
\* calendar.monthrange(year, month)[1]
IsLeap(y) == (y % 4 = 0 /\ y % 100 # 0) \/ y % 400 = 0

MonthRange(y, m) ==
    IF m = 2 THEN (IF IsLeap(y) THEN 29 ELSE 28)
    ELSE IF m \in {4, 6, 9, 11} THEN 30 ELSE 31

\* the date of tick 0
EpochDate == [y |-> 2024, m |-> 1, d |-> 30]

NextDay(dt) ==
    IF dt.d < MonthRange(dt.y, dt.m) THEN [dt EXCEPT !.d = @ + 1]
    ELSE IF dt.m < 12 THEN [y |-> dt.y, m |-> dt.m + 1, d |-> 1]
    ELSE [y |-> dt.y + 1, m |-> 1, d |-> 1]

\* the last day of the month of dt
MonthEnd(dt) == [dt EXCEPT !.d = MonthRange(dt.y, dt.m)]

\* the date n days after dt, a month at a time
RECURSIVE DateAfter(_, _)
DateAfter(dt, n) ==
    LET left == MonthRange(dt.y, dt.m) - dt.d
    IN IF n <= left THEN [dt EXCEPT !.d = @ + n]
       ELSE DateAfter(NextDay(MonthEnd(dt)), n - left - 1)

DateOfDay(n) == DateAfter(EpochDate, n)

\* the number of days from one date to a later one, a month at a time
RECURSIVE DaysBetween(_, _)
DaysBetween(from, to) ==
    IF from.y = to.y /\ from.m = to.m THEN to.d - from.d
    ELSE (MonthRange(from.y, from.m) - from.d + 1)
         + DaysBetween(NextDay(MonthEnd(from)), to)

\* calculate_next_occurrence, lines 708-720: the date `interval` months later
ClampTo28(dt, interval) ==
    LET month0 == dt.m + interval
        year == IF month0 > 12
                THEN (IF month0 % 12 = 0 THEN dt.y + (month0 \div 12) - 1
                                        ELSE dt.y + (month0 \div 12))
                ELSE dt.y
        month == IF month0 > 12
                 THEN (IF month0 % 12 = 0 THEN 12 ELSE month0 % 12)
                 ELSE month0
        day == IF dt.d < 28 THEN dt.d ELSE 28
    IN [y |-> year, m |-> month, d |-> day]

AddMonthsYearOff(dt, interval) ==
    LET month0 == dt.m + interval
        year == IF month0 > 12 THEN dt.y + (month0 \div 12) ELSE dt.y
        month == IF month0 > 12
                 THEN (IF month0 % 12 = 0 THEN 12 ELSE month0 % 12)
                 ELSE month0
        day == IF dt.d < MonthRange(year, month) THEN dt.d ELSE MonthRange(year, month)
    IN [y |-> year, m |-> month, d |-> day]

AddMonths(dt, interval) ==
    LET month0 == dt.m + interval
        year == IF month0 > 12
                THEN (IF month0 % 12 = 0 THEN dt.y + (month0 \div 12) - 1
                                        ELSE dt.y + (month0 \div 12))
                ELSE dt.y
        month == IF month0 > 12
                 THEN (IF month0 % 12 = 0 THEN 12 ELSE month0 % 12)
                 ELSE month0
        day == IF dt.d < MonthRange(year, month) THEN dt.d ELSE MonthRange(year, month)
    IN [y |-> year, m |-> month, d |-> day]

\* calculate_next_occurrence on instants.  replace() keeps the tzinfo of
\* last_time, so old_offset = new_offset and lines 730-732 add nothing.
CalculateNextOccurrence(last_time, recurrence_type, interval) ==
    IF recurrence_type = "day" THEN last_time + interval * DayLen
    ELSE IF recurrence_type = "week" THEN last_time + 7 * interval * DayLen
    ELSE LET dt == DateOfDay(last_time \div DayLen)
         IN last_time + DaysBetween(dt, AddMonths(dt, interval)) * DayLen

\* should_create_next_occurrence, lines 869-873
ShouldCreateAlways(rs, id, next_time) == TRUE

ShouldCreateNextOccurrence(rs, id, next_time) ==
    IF rs[id].status = "absent" \/ rs[id].recEnd = NoEnd THEN TRUE
    ELSE next_time <= rs[id].recEnd

\* The user's zone: its UTC offset, in ticks, grows by one at the instant DstAt
\* (daylight saving begins) and falls back at the instant DstEnd.  A datetime
\* made by localize (line 1116) carries the offset of its instant as a fixed
\* tzinfo; schedule_reminder (lines 745-747) turns it back into an instant with
\* that offset.
DstAt == 5
DstEnd == 9

ZoneOffset(t) == IF t < DstAt \/ t >= DstEnd THEN 0 ELSE 1

\* the local wall-clock time of day at instant t in the user's zone
WallClock(t) == (t + ZoneOffset(t)) % DayLen

\* astimezone(user_timezone): the local date and time at instant t, counted in
\* ticks as a naive datetime
LocalOf(t) == t + ZoneOffset(t)

\* the instants whose local date and time is the naive datetime l
Candidates(l) == {t \in (l - 1)..l : LocalOf(t) = l}

\* user_timezone.localize(naive) with is_dst=False, the default (lines 742 and
\* 1116): the instant with that local time; of two (the clock was set back)
\* the one in standard time; when there is none (the clock was set forward
\* over l) the naive value read with the standard offset
Localize(l) ==
    LET c == Candidates(l)
        std == {t \in c : ZoneOffset(t) = 0}
    IN IF c = {} THEN l
       ELSE IF std # {} THEN CHOOSE t \in std : TRUE
       ELSE CHOOSE t \in c : TRUE

\* ------------------------------------------------------------------ scheduler
Handles == 1..MaxTimers

\* a slot that holds no Timer object
DeadTimer == [rid |-> 0, user |-> None, message |-> None, priority |-> None,
              rtype |-> None, interval |-> Null, time |-> 0, pc |-> "dead", succ |-> 0,
              e |-> None]

\* positions of a thread that runs send_reminder
Running == {"cleanup", "save", "insert", "warn", "mark", "exc"}

FreeHandles(ts) == {h \in Handles : ts[h].pc = "dead"}
NewHandle(ts) == CHOOSE h \in FreeHandles(ts) : \A g \in FreeHandles(ts) : h <= g

\* the arguments of schedule_reminder / send_reminder
Args(rid, user, time, message, priority, rtype, interval) ==
    [rid |-> rid, user |-> user, message |-> message, priority |-> priority,
     rtype |-> rtype, interval |-> interval, time |-> time]

RowArgs(rid, row) ==
    Args(rid, row.user, row.time, row.message, row.priority, row.rtype, row.interval)

NewTimer(a) ==
    [rid |-> a.rid, user |-> a.user, message |-> a.message, priority |-> a.priority,
     rtype |-> a.rtype, interval |-> a.interval, time |-> a.time,
     pc |-> "waiting", succ |-> 0, e |-> None]

\* schedule_reminder, lines 749-770: a timer and an entry when delay > 0
Arms(a, t) == a.time - t > 0

\* the previous timer of the id when its entry is overwritten (line 759):
\* schedule_reminder does not touch it
KeepPrevious(ts, ar, rid) == ts

TimersAfterSchedule(ts, ar, a, t) ==
    IF Arms(a, t)
    THEN LET kept == KeepPrevious(ts, ar, a.rid)
         IN [kept EXCEPT ![NewHandle(kept)] = NewTimer(a)]
    ELSE ts

ActiveAfterSchedule(ts, ar, a, t) ==
    IF Arms(a, t)
    THEN [ar EXCEPT ![a.rid] = NewHandle(KeepPrevious(ts, ar, a.rid))]
    ELSE ar

\* timer.start() (line 770) raises RuntimeError when no thread can be started:
\* the entry stored at line 759 stays and its Timer never runs.  Unstarted is
\* the slot of such Timer objects.
Unstarted == MaxTimers + 1

UnstartedTimer == [DeadTimer EXCEPT !.pc = "unstarted"]

NoTimers ==
    [h \in Handles \cup {Unstarted} |-> IF h = Unstarted THEN UnstartedTimer ELSE DeadTimer]

ActiveAfterStartFailed(ar, a, t) ==
    IF Arms(a, t) THEN [ar EXCEPT ![a.rid] = Unstarted] ELSE ar

\* `if reminder_id in active_reminders: del active_reminders[reminder_id]`
ActiveAfterDel(ar, rid) == [ar EXCEPT ![rid] = 0]

\* active_reminders[reminder_id].cancel(), lines 563 and 1021: the entry is the
\* dict built at lines 759-768, which has no attribute cancel: AttributeError
EntryHasCancel == FALSE

\* ------------------------------------------------------------------ state
NoArgs == Args(0, None, 0, None, None, None, Null)

\* again: handle_missed_reminders is running for the second time in a row
MainAt(pc) == [pc |-> pc, a |-> NoArgs, todo |-> << >>, start |-> {}, again |-> FALSE]

NoHist == [cancelRet |-> FALSE, trans |-> 0]

NoRet == [op |-> None, user |-> None, id |-> 0, result |-> None]

\* a call, its arguments user_id and reminder_id, and how it ended
Returned(op, uid, id, result) == [op |-> op, user |-> uid, id |-> id, result |-> result]

Init ==
    /\ users = [u \in Users |-> NoUser]
    /\ rows = [i \in Ids |-> NoRow]
    /\ nextId = 1
    /\ active_reminders = [i \in Ids |-> 0]
    /\ timers = NoTimers
    /\ main = MainAt("boot")
    /\ now = 0
    /\ sink = [i \in Ids |-> 0]
    /\ hist = [i \in Ids |-> NoHist]
    /\ ret = NoRet
    /\ boots = 0

\* a status change of row id, recorded
Changed(h, id, hit) == IF hit THEN [h EXCEPT ![id].trans = @ + 1] ELSE h

\* the model's bounds: a fresh id and a free Timer slot are left
HasFreeId == nextId <= MaxIds
HasFreeHandle == FreeHandles(timers) # {}

\* ------------------------------------------------------------------ clock, process
\* A tick is long against a handler or a callback: the clock advances when no
\* timer is due and no thread is inside a handler, a callback or the sweep.
Tick ==
    /\ now < MaxTime
    /\ main.pc \in {"idle", "boot"}
    /\ \A h \in Handles : timers[h].pc \notin Running
    /\ \A h \in Handles : timers[h].pc = "waiting" => timers[h].time > now
    /\ now' = now + 1
    /\ UNCHANGED <<users, rows, nextId, active_reminders, timers, main, sink, hist, ret, boots>>

\* the process is stopped between two updates and started again: the store
\* stays, the timers and the table go
Restart ==
    /\ boots < MaxRestarts
    /\ main.pc = "idle"
    /\ \A h \in Handles : timers[h].pc \notin Running
    /\ boots' = boots + 1
    /\ main' = MainAt("boot")
    /\ timers' = NoTimers
    /\ active_reminders' = [i \in Ids |-> 0]
    /\ UNCHANGED <<users, rows, nextId, now, sink, hist, ret>>

\* ------------------------------------------------------------------ send_reminder
\* The timer expires and the callback calls the delivery sink (lines 806-811).
Fire(h) ==
    /\ timers[h].pc = "waiting"
    /\ timers[h].time <= now
    /\ sink' = [sink EXCEPT ![timers[h].rid] = @ + 1]
    /\ \E ok \in BOOLEAN :
        timers' = IF ok THEN [timers EXCEPT ![h].pc = "cleanup"]
                  ELSE [timers EXCEPT ![h].pc = "exc", ![h].e = "TelegramError"]
    /\ UNCHANGED <<users, rows, nextId, active_reminders, main, now, hist, ret, boots>>

\* lines 813-825: the entry is removed; for a recurring reminder the next time
\* is computed and should_create_next_occurrence reads the end of the series
Cleanup(h) ==
    /\ timers[h].pc = "cleanup"
    /\ active_reminders' = ActiveAfterDel(active_reminders, timers[h].rid)
    /\ LET t == timers[h]
           next_time == CalculateNextOccurrence(t.time, t.rtype, t.interval)
       IN \E ok \in BOOLEAN :
            /\ ~ok => t.rtype # None
            /\ timers' = IF ~ok
                         THEN [timers EXCEPT ![h].pc = "exc", ![h].e = "DatabaseError"]
                         ELSE [timers EXCEPT ![h].pc =
                                 IF t.rtype = None THEN "mark"
                                 ELSE IF ShouldCreateNextOccurrence(rows, t.rid, next_time)
                                      THEN "save" ELSE "mark"]
    /\ UNCHANGED <<users, rows, nextId, main, now, sink, hist, ret, boots>>

\* save_reminder of the successor, lines 93-99: user and quota; the exception
\* is caught at line 844 as e
Save(h) ==
    /\ timers[h].pc = "save"
    /\ LET check == SaveCheck(users, timers[h].user)
       IN \E ok \in BOOLEAN :
            timers' = IF ok /\ check = "ok"
                      THEN [timers EXCEPT ![h].pc = "insert"]
                      ELSE [timers EXCEPT ![h].pc = "warn",
                                          ![h].e = IF ok THEN check ELSE "DatabaseError"]
    /\ UNCHANGED <<users, rows, nextId, active_reminders, main, now, sink, hist, ret, boots>>

\* the ways an insert followed by schedule_reminder ends: both done, the insert
\* raised, or the row is inserted and timer.start() raised
InsertOutcomes == {"ok", "db", "thread"}

\* save_reminder of the successor, lines 101-108: the insert and its trigger;
\* then schedule_reminder, lines 837-840.  No other thread knows the new id.
\* Both exceptions are caught at line 844 as e.
Insert(h) ==
    /\ timers[h].pc = "insert"
    /\ LET t == timers[h]
           next_time == CalculateNextOccurrence(t.time, t.rtype, t.interval)
           row == NewRow(t.user, [t EXCEPT !.time = next_time], t.rid)
           a == Args(nextId, t.user, next_time, t.message, t.priority, t.rtype, t.interval)
           held == [timers EXCEPT ![h].pc = "mark", ![h].succ = nextId]
       IN \E out \in InsertOutcomes :
            CASE out = "ok" ->
                 /\ HasFreeId /\ HasFreeHandle
                 /\ rows' = RowsAfterInsert(rows, nextId, row)
                 /\ users' = UsersAfterInsert(users, row)
                 /\ nextId' = nextId + 1
                 /\ timers' = TimersAfterSchedule(held, active_reminders, a, now)
                 /\ active_reminders' = ActiveAfterSchedule(held, active_reminders, a, now)
              [] out = "db" ->
                 /\ timers' = [timers EXCEPT ![h].pc = "warn", ![h].e = "DatabaseError"]
                 /\ UNCHANGED <<rows, users, nextId, active_reminders>>
              [] out = "thread" ->
                 /\ HasFreeId /\ Arms(a, now)
                 /\ rows' = RowsAfterInsert(rows, nextId, row)
                 /\ users' = UsersAfterInsert(users, row)
                 /\ nextId' = nextId + 1
                 /\ timers' = [timers EXCEPT ![h].pc = "warn", ![h].succ = nextId,
                                             ![h].e = "RuntimeError"]
                 /\ active_reminders' = ActiveAfterStartFailed(active_reminders, a, now)
    /\ UNCHANGED <<main, now, sink, hist, ret, boots>>

\* lines 844-849: the warning through the sink
Warn(h) ==
    /\ timers[h].pc = "warn"
    /\ \E ok \in BOOLEAN :
        timers' = IF ok THEN [timers EXCEPT ![h].pc = "mark"]
                  ELSE [timers EXCEPT ![h].pc = "exc", ![h].e = "TelegramError"]
    /\ UNCHANGED <<users, rows, nextId, active_reminders, main, now, sink, hist, ret, boots>>

\* mark_reminder_complete, lines 824 and 851; the callback returns
Mark(h) ==
    /\ timers[h].pc = "mark"
    /\ LET rid == timers[h].rid
       IN \E ok \in BOOLEAN :
            /\ IF ok
               THEN /\ rows' = RowsAfterMark(rows, rid)
                    /\ users' = UsersAfterMark(users, rows, rid)
                    /\ hist' = Changed(hist, rid, MarkHits(rows, rid))
                    /\ timers' = [timers EXCEPT ![h] = DeadTimer]
               ELSE /\ timers' = [timers EXCEPT ![h].pc = "exc", ![h].e = "DatabaseError"]
                    /\ UNCHANGED <<rows, users, hist>>
    /\ UNCHANGED <<nextId, active_reminders, main, now, sink, ret, boots>>

\* lines 853-856: the handler of every exception of the callback
Exc(h) ==
    /\ timers[h].pc = "exc"
    /\ active_reminders' = ActiveAfterDel(active_reminders, timers[h].rid)
    /\ timers' = [timers EXCEPT ![h] = DeadTimer]
    /\ UNCHANGED <<users, rows, nextId, main, now, sink, hist, ret, boots>>

\* ------------------------------------------------------------------ handle_missed_reminders
\* main, line 1245: the sweep starts; line 879 reads the pending rows
SweepStart ==
    /\ main.pc = "boot"
    /\ \E ok \in BOOLEAN :
        /\ main' = IF ok
                   THEN [MainAt("sweep") EXCEPT
                            !.todo = GetAllPendingReminders(users, rows),
                            !.start = {i \in Ids : rows[i].status = "pending"}]
                   ELSE [MainAt("swept") EXCEPT
                            !.start = {i \in Ids : rows[i].status = "pending"}]
    /\ UNCHANGED <<users, rows, nextId, active_reminders, timers, now, sink, hist, ret, boots>>

\* lines 889-930: a row whose time has passed.  `at` is where the row's
\* processing raises: the sink (line 891), should_create_next_occurrence (904),
\* save_reminder by a storage error or by the quota (907), timer.start() in
\* schedule_reminder (918), mark_reminder_complete (930), or nowhere.  An
\* exception ends the sweep (line 944).
SweepOutcomes == {"sink", "should", "save", "limit", "thread", "mark", "none"}

SweepMissed(at) ==
    /\ main.pc = "sweep"
    /\ main.todo # << >>
    /\ LET rid == Head(main.todo)
           row == rows[rid]
           next_time == CalculateNextOccurrence(row.time, row.rtype, row.interval)
           wants == row.rtype # None /\ next_time > now
           creates == wants /\ ShouldCreateNextOccurrence(rows, rid, next_time)
           limit == creates /\ SaveCheck(users, row.user) # "ok"
           srow == NewRow(row.user, [row EXCEPT !.time = next_time], rid)
           a == Args(nextId, row.user, next_time, row.message, row.priority,
                     row.rtype, row.interval)
           reached == [sink |-> TRUE,
                       should |-> wants,
                       save |-> creates,
                       limit |-> limit,
                       thread |-> creates /\ ~limit /\ Arms(a, now),
                       mark |-> ~limit,
                       none |-> ~limit]
           inserted == creates /\ ~limit /\ at \in {"thread", "mark", "none"}
           started == inserted /\ at # "thread"
           rows1 == IF inserted THEN RowsAfterInsert(rows, nextId, srow) ELSE rows
           users1 == IF inserted THEN UsersAfterInsert(users, srow) ELSE users
       IN /\ row.time < now
          /\ reached[at]
          /\ inserted => HasFreeId
          /\ started => HasFreeHandle
          /\ sink' = [sink EXCEPT ![rid] = @ + 1]
          /\ nextId' = IF inserted THEN nextId + 1 ELSE nextId
          /\ timers' = IF started
                       THEN TimersAfterSchedule(timers, active_reminders, a, now)
                       ELSE timers
          /\ active_reminders' =
                IF started THEN ActiveAfterSchedule(timers, active_reminders, a, now)
                ELSE IF inserted THEN ActiveAfterStartFailed(active_reminders, a, now)
                ELSE active_reminders
          /\ rows' = IF at = "none" THEN RowsAfterMark(rows1, rid) ELSE rows1
          /\ users' = IF at = "none" THEN UsersAfterMark(users1, rows1, rid) ELSE users1
          /\ hist' = IF at = "none"
                     THEN Changed(hist, rid, MarkHits(rows1, rid))
                     ELSE hist
          /\ main' = IF at = "none"
                     THEN [main EXCEPT !.todo = Tail(@)]
                     ELSE [main EXCEPT !.pc = "swept", !.todo = << >>]
    /\ UNCHANGED <<now, ret, boots>>

\* lines 931-943: a row whose time has not passed is scheduled; timer.start()
\* raising ends the sweep (line 944)
SweepFuture ==
    /\ main.pc = "sweep"
    /\ main.todo # << >>
    /\ LET rid == Head(main.todo)
           a == RowArgs(rid, rows[rid])
       IN /\ ~(rows[rid].time < now)
          /\ \E ok \in BOOLEAN :
                IF ok
                THEN /\ HasFreeHandle
                     /\ timers' = TimersAfterSchedule(timers, active_reminders, a, now)
                     /\ active_reminders' = ActiveAfterSchedule(timers, active_reminders, a, now)
                     /\ main' = [main EXCEPT !.todo = Tail(@)]
                ELSE /\ Arms(a, now)
                     /\ active_reminders' = ActiveAfterStartFailed(active_reminders, a, now)
                     /\ main' = [main EXCEPT !.pc = "swept", !.todo = << >>]
                     /\ UNCHANGED timers
    /\ UNCHANGED <<users, rows, nextId, now, sink, hist, ret, boots>>

\* the loop ends and handle_missed_reminders returns
SweepEnd ==
    /\ main.pc = "sweep"
    /\ main.todo = << >>
    /\ main' = [main EXCEPT !.pc = "swept"]
    /\ UNCHANGED <<users, rows, nextId, active_reminders, timers, now, sink, hist, ret, boots>>

\* handle_missed_reminders called a second time when it has returned (no time
\* passes in between): line 879 reads the pending rows again
Resweep ==
    /\ main.pc = "swept"
    /\ ~main.again
    /\ \E ok \in BOOLEAN :
        /\ main' = IF ok
                   THEN [MainAt("sweep") EXCEPT
                            !.todo = GetAllPendingReminders(users, rows),
                            !.start = {i \in Ids : rows[i].status = "pending"},
                            !.again = TRUE]
                   ELSE [MainAt("swept") EXCEPT
                            !.start = {i \in Ids : rows[i].status = "pending"},
                            !.again = TRUE]
    /\ UNCHANGED <<users, rows, nextId, active_reminders, timers, now, sink, hist, ret, boots>>

\* main, line 1248: start_polling; the dispatcher thread takes the updates
StartPollingFirst ==
    /\ main.pc = "boot"
    /\ main' = MainAt("idle")
    /\ UNCHANGED <<users, rows, nextId, active_reminders, timers, now, sink, hist, ret, boots>>

StartPolling ==
    /\ main.pc = "swept"
    /\ main' = MainAt("idle")
    /\ UNCHANGED <<users, rows, nextId, active_reminders, timers, now, sink, hist, ret, boots>>

\* ------------------------------------------------------------------ chat handlers
\* set_user_timezone from button_callback (tz_) or handle_message
SetTimezone(u) ==
    /\ main.pc = "idle"
    /\ ~users[u].exists
    /\ users' = UsersAfterSetTimezone(users, u)
    /\ UNCHANGED <<rows, nextId, active_reminders, timers, main, now, sink, hist, ret, boots>>

\* handle_message, lines 1086-1124: the time of a parsed reminder.  Without a
\* date the time is taken on today's date and moved one day on when it has
\* passed; a time still in the past is rejected.
DayStart(t) == t - (t % DayLen)

Resolved(t, hasDate) ==
    IF t < now /\ ~hasDate THEN t + DayLen ELSE t

TimeInputs(hasDate) ==
    IF hasDate THEN {t \in (now - 1)..(now + 1) : t >= 0}
    ELSE DayStart(now)..(DayStart(now) + DayLen - 1)

\* lines 1130-1132: priority and recurrence of the parsed reminder, read from
\* its keys priority, recurrence_type and recurrence_interval; a reminder
\* without the key recurrence_interval gets 1.  The keys are inputs of the
\* handler: parse_reminder as written (lines 626-653) sets none of them.
Parsed ==
    {[message |-> m, priority |-> "medium", rtype |-> None, interval |-> 1] : m \in Messages}
    \cup {[message |-> m, priority |-> "high", rtype |-> r, interval |-> 1] :
            m \in Messages, r \in {"day"}}

\* line 1122: `if reminder_time < now`, the request is refused
PastTimeNever(t) == FALSE

PastTime(t) == t < now

\* handle_message, lines 1074-1138: a reminder is parsed and save_reminder
\* checks user and quota; a rejected request changes nothing
CreateCheck(u, p, t, hasDate) ==
    /\ main.pc = "idle"
    /\ users[u].exists
    /\ ~PastTime(Resolved(t, hasDate))
    /\ SaveCheck(users, u) = "ok"
    /\ HasFreeId
    /\ main' = [MainAt("create_insert") EXCEPT
                  !.a = Args(0, u, Resolved(t, hasDate), p.message, p.priority,
                             p.rtype, p.interval)]
    /\ UNCHANGED <<users, rows, nextId, active_reminders, timers, now, sink, hist, ret, boots>>

\* save_reminder, lines 101-108, and schedule_reminder, lines 1141-1151; an
\* exception ends the handler (line 1170).  No other thread knows the new id.
CreateInsert ==
    /\ main.pc = "create_insert"
    /\ LET row == NewRow(main.a.user, main.a, Null)
           a == [main.a EXCEPT !.rid = nextId]
       IN \E out \in InsertOutcomes :
            CASE out = "ok" ->
                 /\ HasFreeId /\ HasFreeHandle
                 /\ rows' = RowsAfterInsert(rows, nextId, row)
                 /\ users' = UsersAfterInsert(users, row)
                 /\ nextId' = nextId + 1
                 /\ timers' = TimersAfterSchedule(timers, active_reminders, a, now)
                 /\ active_reminders' = ActiveAfterSchedule(timers, active_reminders, a, now)
              [] out = "db" ->
                 UNCHANGED <<rows, users, nextId, timers, active_reminders>>
              [] out = "thread" ->
                 /\ HasFreeId /\ Arms(a, now)
                 /\ rows' = RowsAfterInsert(rows, nextId, row)
                 /\ users' = UsersAfterInsert(users, row)
                 /\ nextId' = nextId + 1
                 /\ active_reminders' = ActiveAfterStartFailed(active_reminders, a, now)
                 /\ UNCHANGED timers
    /\ main' = MainAt("idle")
    /\ UNCHANGED <<now, sink, hist, ret, boots>>

\* handle_message, lines 1122-1124: the resolved time has passed; the user is
\* told so and the loop goes on to the next parsed reminder.  ret records the
\* refusal.
CreateReject(u, p, t, hasDate) ==
    /\ main.pc = "idle"
    /\ users[u].exists
    /\ PastTime(Resolved(t, hasDate))
    /\ ret' = Returned("handle_message", u, 0, "PastTime")
    /\ UNCHANGED <<users, rows, nextId, active_reminders, timers, main, now, sink, hist, boots>>

\* what a cancel does to the timer table once delete_reminder returned True
\* (lines 562-564): with an entry, .cancel() raises before the del
ActiveAfterCancel(ar, rid) ==
    IF ar[rid] # 0 /\ EntryHasCancel THEN ActiveAfterDel(ar, rid) ELSE ar

TimersAfterCancel(ts, ar, rid) ==
    IF ar[rid] # 0 /\ EntryHasCancel THEN [ts EXCEPT ![ar[rid]] = DeadTimer] ELSE ts

HistAfterCancel(rid) ==
    [Changed(hist, rid, DeleteHits(rows, rid, None)) EXCEPT ![rid].cancelRet = TRUE]

\* button_callback, lines 558-567: the cancel button of a listed reminder
CancelButton(rid) ==
    /\ main.pc = "idle"
    /\ rows[rid].status # "absent"
    /\ rows' = RowsAfterDelete(rows, rid, None)
    /\ users' = UsersAfterDelete(users, rows, rid, None)
    /\ hist' = HistAfterCancel(rid)
    /\ IF DeleteHits(rows, rid, None)
       THEN /\ active_reminders' = ActiveAfterCancel(active_reminders, rid)
            /\ timers' = TimersAfterCancel(timers, active_reminders, rid)
       ELSE UNCHANGED <<active_reminders, timers>>
    /\ UNCHANGED <<nextId, main, now, sink, ret, boots>>

\* cancel_reminder, lines 686-698: /cancel <id>
CancelCommand(rid) ==
    /\ main.pc = "idle"
    /\ rows[rid].status # "absent"
    /\ rows' = RowsAfterDelete(rows, rid, None)
    /\ users' = UsersAfterDelete(users, rows, rid, None)
    /\ hist' = HistAfterCancel(rid)
    /\ UNCHANGED <<nextId, active_reminders, timers, main, now, sink, ret, boots>>

\* button_callback, lines 520-523, entered with the three fields of the button
\* data: update_reminder with the recurrence (for 'none' both values are None)
\* has returned True
RecurUpdates(rec_type) ==
    IF rec_type = "none" THEN NoUpdates
    ELSE [NoUpdates EXCEPT !.set = {"recurrence_type", "recurrence_interval"},
                           !.rtype = rec_type, !.interval = 1]

SetRecurUpdate(u, rid, rec_type) ==
    /\ main.pc = "idle"
    /\ users[u].exists
    /\ UpdateHits(rows, rid, None, RecurUpdates(rec_type))
    /\ rows' = RowsAfterUpdate(rows, rid, None, RecurUpdates(rec_type))
    /\ users' = UsersAfterUpdate(users, rows, rid, None, RecurUpdates(rec_type))
    /\ main' = [MainAt("setrecur_sched") EXCEPT
                  !.a = Args(rid, u, 0, None, None, rec_type, 1)]
    /\ UNCHANGED <<nextId, active_reminders, timers, now, sink, hist, ret, boots>>

\* lines 520-523 and 541-542: update_reminder returned False (for 'none' no
\* column is set, lines 237-246; or the row is not pending) and the user is
\* told that the update failed.  ret records the button and the refusal.
SetRecurRefused(u, rid, rec_type) ==
    /\ main.pc = "idle"
    /\ users[u].exists
    /\ rows[rid].status # "absent"
    /\ ~UpdateHits(rows, rid, None, RecurUpdates(rec_type))
    /\ ret' = Returned("set_recur_" \o rec_type, u, rid, "False")
    /\ UNCHANGED <<users, rows, nextId, active_reminders, timers, main, now, sink, hist, boots>>

\* lines 525-540: the row is read again and schedule_reminder is called
SetRecurSched ==
    /\ main.pc = "setrecur_sched"
    /\ LET rid == main.a.rid
           reminder == GetReminderById(rows, rid, None)
           a == Args(rid, main.a.user, reminder.time, reminder.message,
                     reminder.priority, main.a.rtype, main.a.interval)
       IN IF reminder.status = "pending"
          THEN \E ok \in BOOLEAN :
                IF ok
                THEN /\ HasFreeHandle
                     /\ timers' = TimersAfterSchedule(timers, active_reminders, a, now)
                     /\ active_reminders' = ActiveAfterSchedule(timers, active_reminders, a, now)
                ELSE /\ Arms(a, now)
                     /\ active_reminders' = ActiveAfterStartFailed(active_reminders, a, now)
                     /\ UNCHANGED timers
          ELSE UNCHANGED <<active_reminders, timers>>
    /\ main' = MainAt("idle")
    /\ UNCHANGED <<users, rows, nextId, now, sink, hist, ret, boots>>

\* handle_message, lines 999-1052, entered with edit_action 'time' for a
\* reminder under edit: the new time is parsed (parse_natural_time always sets
\* a date, so line 1011 never rolls it on) and rejected when it has passed;
\* update_reminder persists it; with an entry, .cancel() on the entry raises
\* (line 1021) and the handler at line 1042 ends the edit; without one
\* schedule_reminder is called with the new time.  EditInputs are the new
\* times given.
EditInputs == {t \in {now + 1} : t <= MaxTime}

EditTime(u, rid, t) ==
    /\ main.pc = "idle"
    /\ users[u].exists
    /\ ~(t < now)
    /\ LET reminder == GetReminderById(rows, rid, None)
           upd == [NoUpdates EXCEPT !.set = {"reminder_time"}, !.time = t]
           a == Args(rid, u, t, reminder.message, reminder.priority,
                     reminder.rtype, reminder.interval)
           ts == TimersAfterCancel(timers, active_reminders, rid)
           ar == ActiveAfterCancel(active_reminders, rid)
       IN /\ reminder.status = "pending"
          /\ rows' = RowsAfterUpdate(rows, rid, None, upd)
          /\ users' = UsersAfterUpdate(users, rows, rid, None, upd)
          /\ IF active_reminders[rid] # 0 /\ ~EntryHasCancel
             THEN UNCHANGED <<active_reminders, timers>>
             ELSE \E ok \in BOOLEAN :
                    IF ok
                    THEN /\ FreeHandles(ts) # {}
                         /\ timers' = TimersAfterSchedule(ts, ar, a, now)
                         /\ active_reminders' = ActiveAfterSchedule(ts, ar, a, now)
                    ELSE /\ Arms(a, now)
                         /\ timers' = ts
                         /\ active_reminders' = ActiveAfterStartFailed(ar, a, now)
    /\ UNCHANGED <<nextId, main, now, sink, hist, ret, boots>>

\* ------------------------------------------------------------------ store calls
\* The operations of the store called one at a time with any arguments: each
\* runs in one transaction (`with sqlite3.connect(...) as conn`, line 55).
\* ret records the last call of save_reminder, with its arguments user_id and
\* reminder_id, and what it returned or raised.

\* the fields of a reminder passed to save_reminder; its time is the start of
\* the day: cleanup_old_reminders, which alone reads it here, counts in days
SaveInputs ==
    {[message |-> m, priority |-> "medium", time |-> DayStart(now), rtype |-> None,
      interval |-> Null] : m \in Messages}

\* keyword arguments passed to update_reminder: none that is not None, a
\* recurrence (line 523), or a status
UpdateInputs ==
    {NoUpdates, RecurUpdates("day")}
    \cup {[NoUpdates EXCEPT !.set = {"status"}, !.status = st] :
            st \in {"pending", "completed", "cancelled"}}

StSetTimezone(u) ==
    /\ users' = UsersAfterSetTimezone(users, u)
    /\ UNCHANGED <<rows, nextId, active_reminders, timers, main, now, sink, hist, ret, boots>>

StSave(u, f, parent) ==
    /\ SaveCheck(users, u) = "ok" => HasFreeId
    /\ IF SaveCheck(users, u) = "ok"
       THEN /\ rows' = RowsAfterInsert(rows, nextId, NewRow(u, f, parent))
            /\ users' = UsersAfterInsert(users, NewRow(u, f, parent))
            /\ nextId' = nextId + 1
            /\ ret' = Returned("save_reminder", u, nextId, "True")
       ELSE /\ ret' = Returned("save_reminder", u, nextId, SaveCheck(users, u))
            /\ UNCHANGED <<rows, users, nextId>>
    /\ UNCHANGED <<active_reminders, timers, main, now, sink, hist, boots>>

\* update_reminder(reminder_id, recurrence_end_date=end) with an aware
\* datetime: the only way the store's operations set the end of a series
EndUpdates(end) == [NoUpdates EXCEPT !.set = {"recurrence_end_date"}, !.recEnd = end]

\* the ends given to recurring reminders
EndInputs == 2..MaxTime

StSetEnd(rid, end) ==
    /\ rows[rid].rtype # None
    /\ rows[rid].recEnd = NoEnd
    /\ rows' = RowsAfterUpdate(rows, rid, None, EndUpdates(end))
    /\ users' = UsersAfterUpdate(users, rows, rid, None, EndUpdates(end))
    /\ UNCHANGED <<nextId, active_reminders, timers, main, now, sink, hist, ret, boots>>

StDelete(rid, uid) ==
    /\ rows' = RowsAfterDelete(rows, rid, uid)
    /\ users' = UsersAfterDelete(users, rows, rid, uid)
    /\ UNCHANGED <<nextId, active_reminders, timers, main, now, sink, hist, ret, boots>>

StMark(rid) ==
    /\ rows' = RowsAfterMark(rows, rid)
    /\ users' = UsersAfterMark(users, rows, rid)
    /\ UNCHANGED <<nextId, active_reminders, timers, main, now, sink, hist, ret, boots>>

StUpdate(rid, uid, upd) ==
    /\ rows' = RowsAfterUpdate(rows, rid, uid, upd)
    /\ users' = UsersAfterUpdate(users, rows, rid, uid, upd)
    /\ UNCHANGED <<nextId, active_reminders, timers, main, now, sink, hist, ret, boots>>

\* cleanup_old_reminders(days), lines 185-192: the cutoff is the naive local
\* time as an ISO string, compared as text with the stored strings, which carry
\* the zone's offset: it is off the instant by up to `skew`
StCleanup(days) ==
    /\ \E skew \in {0 - 1, 0, 1} :
        rows' = RowsAfterCleanup(rows, now - days * DayLen + skew)
    /\ UNCHANGED <<users, nextId, active_reminders, timers, main, now, sink, hist, ret, boots>>

NextStore ==
    \/ Tick
    \/ \E u \in Users : StSetTimezone(u)
    \/ \E u \in Users, f \in SaveInputs, parent \in {Null} : StSave(u, f, parent)
    \/ \E rid \in Ids, uid \in Users \cup {None} : StDelete(rid, uid)
    \/ \E rid \in Ids : StMark(rid)
    \/ \E rid \in Ids, uid \in Users \cup {None}, upd \in UpdateInputs : StUpdate(rid, uid, upd)
    \/ \E days \in {0, 1} : StCleanup(days)

SpecStore == Init /\ [][NextStore]_vars

\* ------------------------------------------------------------------ update_reminder
\* a user id that owns no row
Stranger == "u2"

\* a call of update_reminder: its arguments reminder_id, user_id and updates,
\* and what it returned
UpdateAt(pc, rid, uid, upd, result) ==
    [pc |-> pc, rid |-> rid, uid |-> uid, upd |-> upd, result |-> result]

InitUpdate ==
    /\ users = [u \in Users |-> NoUser]
    /\ rows = [i \in Ids |-> NoRow]
    /\ nextId = 1
    /\ active_reminders = [i \in Ids |-> 0]
    /\ timers = NoTimers
    /\ main = UpdateAt("idle", 0, None, NoUpdates, None)
    /\ now = 0
    /\ sink = [i \in Ids |-> 0]
    /\ hist = [i \in Ids |-> NoHist]
    /\ ret = NoRet
    /\ boots = 0

\* update_reminder is called, with or without the owner filter
UpdateCall(rid, uid, upd) ==
    /\ main.pc = "idle"
    /\ main' = UpdateAt("call", rid, uid, upd, None)
    /\ UNCHANGED <<users, rows, nextId, active_reminders, timers, now, sink, hist, ret, boots>>

\* lines 230-262: the UPDATE in its transaction, and `return c.rowcount > 0`
UpdateRun ==
    /\ main.pc = "call"
    /\ rows' = RowsAfterUpdate(rows, main.rid, main.uid, main.upd)
    /\ users' = UsersAfterUpdate(users, rows, main.rid, main.uid, main.upd)
    /\ main' = [main EXCEPT
                  !.pc = "idle",
                  !.result = IF UpdateHits(rows, main.rid, main.uid, main.upd)
                             THEN "True" ELSE "False"]
    /\ UNCHANGED <<nextId, active_reminders, timers, now, sink, hist, ret, boots>>

\* update_reminder called among the other operations of the store
NextUpdate ==
    \/ \E u \in Users : StSetTimezone(u)
    \/ \E u \in Users, f \in SaveInputs, parent \in {Null} : StSave(u, f, parent)
    \/ \E rid \in Ids, uid \in Users \cup {None} : StDelete(rid, uid)
    \/ \E rid \in Ids : StMark(rid)
    \/ \E rid \in Ids, uid \in Users \cup {None, Stranger}, upd \in UpdateInputs :
            UpdateCall(rid, uid, upd)
    \/ UpdateRun

SpecUpdate == InitUpdate /\ [][NextUpdate]_vars

\* ------------------------------------------------------------------ specification
Next ==
    \/ Tick
    \/ Restart
    \/ \E h \in Handles :
        \/ Fire(h) \/ Cleanup(h) \/ Save(h) \/ Insert(h)
        \/ Warn(h) \/ Mark(h) \/ Exc(h)
    \/ SweepStart
    \/ \E at \in SweepOutcomes : SweepMissed(at)
    \/ SweepFuture
    \/ SweepEnd
    \/ StartPolling
    \/ \E u \in Users : SetTimezone(u)
    \/ \E u \in Users, p \in Parsed, hasDate \in BOOLEAN :
        \E t \in TimeInputs(hasDate) : CreateCheck(u, p, t, hasDate)
    \/ CreateInsert
    \/ \E rid \in Ids : CancelButton(rid) \/ CancelCommand(rid)

Spec == Init /\ [][Next]_vars

\* one run of the process in which reminders are created, edited with the
\* recurrence buttons of the edit menu, and fire
NextEdit ==
    \/ Tick
    \/ \E h \in Handles :
        \/ Fire(h) \/ Cleanup(h) \/ Save(h) \/ Insert(h)
        \/ Warn(h) \/ Mark(h) \/ Exc(h)
    \/ SweepStart
    \/ SweepEnd
    \/ StartPolling
    \/ \E u \in Users : SetTimezone(u)
    \/ \E u \in Users, p \in Parsed, hasDate \in BOOLEAN :
        \E t \in TimeInputs(hasDate) : CreateCheck(u, p, t, hasDate)
    \/ CreateInsert
    \/ \E u \in Users, rid \in Ids, r \in {"day", "none"} : SetRecurUpdate(u, rid, r)
    \/ SetRecurSched

SpecEdit == Init /\ [][NextEdit]_vars

\* the process with its start-up sweep run twice in a row
NextResweep ==
    \/ Tick
    \/ Restart
    \/ \E h \in Handles :
        \/ Fire(h) \/ Cleanup(h) \/ Save(h) \/ Insert(h)
        \/ Warn(h) \/ Mark(h) \/ Exc(h)
    \/ SweepStart
    \/ \E at \in SweepOutcomes : SweepMissed(at)
    \/ SweepFuture
    \/ SweepEnd
    \/ Resweep
    \/ StartPolling
    \/ \E u \in Users : SetTimezone(u)
    \/ \E u \in Users, p \in Parsed, hasDate \in BOOLEAN :
        \E t \in TimeInputs(hasDate) : CreateCheck(u, p, t, hasDate)
    \/ CreateInsert

SpecResweep == Init /\ [][NextResweep]_vars

\* ------------------------------------------------------------------ safe_db_operation
\* line 50: max_retries
MaxRetries == 3

\* a thread in wrapper (lines 49-65): the wrapped function and its arguments,
\* the loop variable attempt, and the sqlite3.Error exceptions caught so far
CallAt(pc, op, u, rid, attempt, errors) ==
    [pc |-> pc, op |-> op, user |-> u, rid |-> rid, attempt |-> attempt, errors |-> errors]

\* the wrapped functions called
WrappedOps == {"set_user_timezone", "save_reminder", "mark_reminder_complete"}

InitRetry ==
    /\ users = [u \in Users |-> NoUser]
    /\ rows = [i \in Ids |-> NoRow]
    /\ nextId = 1
    /\ active_reminders = [i \in Ids |-> 0]
    /\ timers = NoTimers
    /\ main = CallAt("idle", None, None, 0, 0, 0)
    /\ now = 0
    /\ sink = [i \in Ids |-> 0]
    /\ hist = [i \in Ids |-> NoHist]
    /\ ret = NoRet
    /\ boots = 0

\* a wrapped function is called: wrapper starts its loop
Call(op, u, rid) ==
    /\ main.pc = "idle"
    /\ op = "save_reminder" => rid = nextId /\ HasFreeId
    /\ main' = CallAt("attempt", op, u, rid, 0, 0)
    /\ UNCHANGED <<users, rows, nextId, active_reminders, timers, now, sink, hist, ret, boots>>

\* what func(conn, ...) returns or raises on the store (lines 76-109, 150-158)
FuncResult(op, u, rid) ==
    CASE op = "set_user_timezone" -> None
      [] op = "save_reminder" -> IF SaveCheck(users, u) = "ok" THEN "True" ELSE SaveCheck(users, u)
      [] op = "mark_reminder_complete" -> IF MarkHits(rows, rid) THEN "True" ELSE "False"

\* the rows and users func(conn, ...) has written in its transaction when it
\* returns; a func that raises (lines 96 and 99) has written nothing
FuncWrites(op, u, rid) ==
    CASE op = "set_user_timezone" ->
            [users |-> UsersAfterSetTimezone(users, u), rows |-> rows]
      [] op = "save_reminder" ->
            IF SaveCheck(users, u) = "ok"
            THEN LET row == NewRow(u, CHOOSE f \in SaveInputs : TRUE, Null)
                 IN [users |-> UsersAfterInsert(users, row),
                     rows |-> RowsAfterInsert(rows, rid, row)]
            ELSE [users |-> users, rows |-> rows]
      [] op = "mark_reminder_complete" ->
            [users |-> UsersAfterMark(users, rows, rid), rows |-> RowsAfterMark(rows, rid)]

\* line 55: `with sqlite3.connect(...) as conn` left by an exception rolls the
\* transaction back: the store is as before the pass
KeepWrites(before, written) == written

Rollback(before, written) == before

\* where a pass of the loop ends: func returned or raised and the transaction
\* was committed or rolled back accordingly, connect raised sqlite3.Error,
\* or func returned and the commit raised sqlite3.Error
AttemptOutcomes == {"ok", "connect", "commit"}

\* one pass of the loop, lines 54-65.  sqlite3.Error raised in it is caught
\* and the pass is retried unless it was the last one, which raises
\* DatabaseError.  Without it wrapper returns what func returns or lets
\* through what func raises.
Attempt ==
    /\ main.pc = "attempt"
    /\ \E out \in AttemptOutcomes :
        LET before == [users |-> users, rows |-> rows]
            written == FuncWrites(main.op, main.user, main.rid)
            result == FuncResult(main.op, main.user, main.rid)
            raised == result \in {"DatabaseError", "ReminderLimitError"}
            after == IF out = "ok" /\ ~raised THEN written
                     ELSE Rollback(before, IF out = "connect" THEN before ELSE written)
        IN /\ out = "commit" => ~raised
           /\ users' = after.users
           /\ rows' = after.rows
           /\ nextId' = IF main.op = "save_reminder" /\ after.rows # rows
                         THEN nextId + 1 ELSE nextId
           /\ IF out # "ok"
              THEN IF main.attempt < MaxRetries - 1
                   THEN /\ main' = [main EXCEPT !.attempt = @ + 1, !.errors = @ + 1]
                        /\ ret' = ret
                   ELSE /\ main' = [main EXCEPT !.pc = "idle", !.errors = @ + 1]
                        /\ ret' = Returned(main.op, main.user, main.rid, "DatabaseError")
              ELSE /\ main' = [main EXCEPT !.pc = "idle"]
                   /\ ret' = Returned(main.op, main.user, main.rid, result)
    /\ UNCHANGED <<active_reminders, timers, now, sink, hist, boots>>

\* the store's functions called through wrapper by one thread
NextRetry ==
    \/ \E op \in WrappedOps, u \in Users, rid \in Ids : Call(op, u, rid)
    \/ Attempt

SpecRetry == InitRetry /\ [][NextRetry]_vars

\* ------------------------------------------------------------------ calculate_next_occurrence
MaxDay == 62
MaxInterval == 13

\* a call of calculate_next_occurrence: its arguments and its result
RecurAt(pc, last_time, rtype, interval, next_time) ==
    [pc |-> pc, last_time |-> last_time, rtype |-> rtype, interval |-> interval,
     next_time |-> next_time]

\* the arguments given: instants of the days 0..MaxDay, every unit, intervals
\* up to MaxInterval
RecurInputs ==
    {RecurAt("call", t, r, k, 0) :
        t \in 0..(MaxDay * DayLen + DayLen - 1),
        r \in {"day", "week", "month"},
        k \in 1..MaxInterval}

InitRecur ==
    /\ users = [u \in Users |-> NoUser]
    /\ rows = [i \in Ids |-> NoRow]
    /\ nextId = 1
    /\ active_reminders = [i \in Ids |-> 0]
    /\ timers = NoTimers
    /\ main \in RecurInputs
    /\ now = 0
    /\ sink = [i \in Ids |-> 0]
    /\ hist = [i \in Ids |-> NoHist]
    /\ ret = NoRet
    /\ boots = 0

Apply ==
    /\ main.pc = "call"
    /\ main' = [main EXCEPT
                  !.pc = "done",
                  !.next_time = CalculateNextOccurrence(main.last_time, main.rtype,
                                                        main.interval)]
    /\ UNCHANGED <<users, rows, nextId, active_reminders, timers, now, sink, hist, ret, boots>>

NextRecur == Apply

SpecRecur == InitRecur /\ [][NextRecur]_vars

\* ------------------------------------------------------------------ months and years
\* the longest interval, in months
MaxMonths == 25

\* the first and the last day of every month of the year of tick 0 and of the
\* year after it
MonthDates ==
    {[y |-> y, m |-> m, d |-> d] :
        y \in {EpochDate.y, EpochDate.y + 1}, m \in 1..12, d \in {1, 28, 29, 30, 31}}

\* calculate_next_occurrence called with unit month on those dates, at the
\* first instant of the day
MonthInputs ==
    {RecurAt("call", DaysBetween(EpochDate, dt) * DayLen, "month", k, 0) :
        dt \in {x \in MonthDates : x.d \in {1, MonthRange(x.y, x.m)}},
        k \in 1..MaxMonths}

InitMonths ==
    /\ users = [u \in Users |-> NoUser]
    /\ rows = [i \in Ids |-> NoRow]
    /\ nextId = 1
    /\ active_reminders = [i \in Ids |-> 0]
    /\ timers = NoTimers
    /\ main \in MonthInputs
    /\ now = 0
    /\ sink = [i \in Ids |-> 0]
    /\ hist = [i \in Ids |-> NoHist]
    /\ ret = NoRet
    /\ boots = 0

SpecMonths == InitMonths /\ [][NextRecur]_vars

\* ------------------------------------------------------------------ a series
\* occurrences of a series followed
MaxOccurrences == 3

\* a series: the time of its first occurrence, the time of its latest one
\* (last_time of send_reminder), unit and interval, and the occurrences so far
SeriesAt(first, last_time, rtype, interval, n) ==
    [first |-> first, last_time |-> last_time, rtype |-> rtype, interval |-> interval,
     n |-> n]

SeriesInputs ==
    {SeriesAt(t, t, r, k, 1) :
        t \in 0..(MaxDay * DayLen + DayLen - 1),
        r \in {"day", "week", "month"},
        k \in 1..MaxInterval}

InitSeries ==
    /\ users = [u \in Users |-> NoUser]
    /\ rows = [i \in Ids |-> NoRow]
    /\ nextId = 1
    /\ active_reminders = [i \in Ids |-> 0]
    /\ timers = NoTimers
    /\ main \in SeriesInputs
    /\ now = 0
    /\ sink = [i \in Ids |-> 0]
    /\ hist = [i \in Ids |-> NoHist]
    /\ ret = NoRet
    /\ boots = 0

\* send_reminder, lines 820 and 837-840: the successor's time is computed from
\* the time of the occurrence that fired, and is last_time of the next firing
NextOccurrence ==
    /\ main.n < MaxOccurrences
    /\ main' = [main EXCEPT
                  !.last_time = CalculateNextOccurrence(main.last_time, main.rtype,
                                                        main.interval),
                  !.n = @ + 1]
    /\ UNCHANGED <<users, rows, nextId, active_reminders, timers, now, sink, hist, ret, boots>>

NextSeries == NextOccurrence

SpecSeries == InitSeries /\ [][NextSeries]_vars

\* ------------------------------------------------------------------ localize
\* the naive datetime of a date and a time of day
Naive(date, time) == date * DayLen + time

\* a request's date and time being resolved: the naive datetime built at lines
\* 1088-1114, the aware one of line 1116 as an instant, and that instant's
\* local date and time
LocalAt(pc, date, time, instant, back) ==
    [pc |-> pc, date |-> date, time |-> time, instant |-> instant, back |-> back]

\* the dates and times given: the days 0..MaxDay, every time of day
LocalInputs ==
    {LocalAt("naive", d, tm, 0, 0) : d \in 0..MaxDay, tm \in 0..(DayLen - 1)}

InitLocal ==
    /\ users = [u \in Users |-> NoUser]
    /\ rows = [i \in Ids |-> NoRow]
    /\ nextId = 1
    /\ active_reminders = [i \in Ids |-> 0]
    /\ timers = NoTimers
    /\ main \in LocalInputs
    /\ now = 0
    /\ sink = [i \in Ids |-> 0]
    /\ hist = [i \in Ids |-> NoHist]
    /\ ret = NoRet
    /\ boots = 0

\* line 1116 (and line 742): the naive datetime is localized
Resolve ==
    /\ main.pc = "naive"
    /\ main' = [main EXCEPT !.pc = "aware",
                            !.instant = Localize(Naive(main.date, main.time))]
    /\ UNCHANGED <<users, rows, nextId, active_reminders, timers, now, sink, hist, ret, boots>>

\* the instant is shown in the user's zone again
ConvertBack ==
    /\ main.pc = "aware"
    /\ main' = [main EXCEPT !.pc = "back", !.back = LocalOf(main.instant)]
    /\ UNCHANGED <<users, rows, nextId, active_reminders, timers, now, sink, hist, ret, boots>>

NextLocal == Resolve \/ ConvertBack

SpecLocal == InitLocal /\ [][NextLocal]_vars

\* one run of the process in which reminders are requested, for times that
\* have passed too, and fire
NextCreate ==
    \/ Tick
    \/ \E h \in Handles :
        \/ Fire(h) \/ Cleanup(h) \/ Save(h) \/ Insert(h)
        \/ Warn(h) \/ Mark(h) \/ Exc(h)
    \/ SweepStart
    \/ SweepEnd
    \/ StartPolling
    \/ \E u \in Users : SetTimezone(u)
    \/ \E u \in Users, p \in Parsed, hasDate \in BOOLEAN :
        \E t \in TimeInputs(hasDate) : CreateCheck(u, p, t, hasDate)
    \/ \E u \in Users, p \in Parsed, hasDate \in BOOLEAN :
        \E t \in TimeInputs(hasDate) : CreateReject(u, p, t, hasDate)
    \/ CreateInsert

SpecCreate == Init /\ [][NextCreate]_vars

\* one run of the process in which recurring reminders are created, their
\* recurrence is edited, with 'No Recurrence' too, and they fire
NextNoRecur ==
    \/ Tick
    \/ \E h \in Handles :
        \/ Fire(h) \/ Cleanup(h) \/ Save(h) \/ Insert(h)
        \/ Warn(h) \/ Mark(h) \/ Exc(h)
    \/ SweepStart
    \/ SweepEnd
    \/ StartPolling
    \/ \E u \in Users : SetTimezone(u)
    \/ \E u \in Users, p \in {q \in Parsed : q.rtype # None}, hasDate \in {TRUE} :
        \E t \in TimeInputs(hasDate) : CreateCheck(u, p, t, hasDate)
    \/ CreateInsert
    \/ \E u \in Users, rid \in Ids, r \in {"day", "none"} : SetRecurUpdate(u, rid, r)
    \/ SetRecurSched
    \/ \E u \in Users, rid \in Ids, r \in {"none"} : SetRecurRefused(u, rid, r)

SpecNoRecur == Init /\ [][NextNoRecur]_vars

\* cancel_reminder (line 687 reads the sender's id, nothing uses it) and the
\* cancel button, requested by a user u who does not own the reminder
CancelCommandBy(u, rid) ==
    /\ rows[rid].user # u
    /\ CancelCommand(rid)

CancelButtonBy(u, rid) ==
    /\ rows[rid].user # u
    /\ CancelButton(rid)

\* one run of the process in which every cancel is requested by a user who
\* owns no reminder
NextForeign ==
    \/ Tick
    \/ \E h \in Handles :
        \/ Fire(h) \/ Cleanup(h) \/ Save(h) \/ Insert(h)
        \/ Warn(h) \/ Mark(h) \/ Exc(h)
    \/ SweepStart
    \/ SweepEnd
    \/ StartPolling
    \/ \E u \in Users : SetTimezone(u)
    \/ \E u \in Users, p \in Parsed, hasDate \in BOOLEAN :
        \E t \in TimeInputs(hasDate) : CreateCheck(u, p, t, hasDate)
    \/ CreateInsert
    \/ \E rid \in Ids : CancelCommandBy(Stranger, rid)
    \/ \E rid \in Ids : CancelButtonBy(Stranger, rid)

SpecForeign == Init /\ [][NextForeign]_vars

\* one run of the process in which recurring reminders are given an end
NextEnd ==
    \/ Tick
    \/ \E h \in Handles :
        \/ Fire(h) \/ Cleanup(h) \/ Save(h) \/ Insert(h)
        \/ Warn(h) \/ Mark(h) \/ Exc(h)
    \/ SweepStart
    \/ SweepEnd
    \/ StartPolling
    \/ \E u \in Users : SetTimezone(u)
    \/ \E u \in Users, p \in Parsed, hasDate \in BOOLEAN :
        \E t \in TimeInputs(hasDate) : CreateCheck(u, p, t, hasDate)
    \/ CreateInsert
    \/ \E rid \in Ids, end \in EndInputs : StSetEnd(rid, end)

SpecEnd == Init /\ [][NextEnd]_vars

\* one run of the process in which the time of reminders, all of them
\* non-recurring, is edited
NextTime ==
    \/ Tick
    \/ \E h \in Handles : Fire(h) \/ Cleanup(h) \/ Mark(h) \/ Exc(h)
    \/ SweepStart
    \/ SweepEnd
    \/ StartPolling
    \/ \E u \in Users : SetTimezone(u)
    \/ \E u \in Users, p \in {q \in Parsed : q.rtype = None}, hasDate \in BOOLEAN :
        \E t \in TimeInputs(hasDate) : CreateCheck(u, p, t, hasDate)
    \/ CreateInsert
    \/ \E u \in Users, rid \in Ids, t \in EditInputs : EditTime(u, rid, t)

SpecTime == Init /\ [][NextTime]_vars

\* ------------------------------------------------------------------ properties
\* C1: under every interleaving of a cancel (delete_reminder) with the firing
\* of the same reminder, the row ends in one terminal status: once a cancel of
\* the reminder has returned, and when the firing's mark_reminder_complete
\* returns, the row is completed or cancelled and its status has changed
\* exactly once.
CancelFireOneTerminalStatus ==
    [][/\ \A i \in Ids : hist'[i].cancelRet =>
            /\ rows'[i].status \in Terminal
            /\ hist'[i].trans = 1
       /\ \A h \in Handles : (timers[h].pc = "mark" /\ timers'[h].pc = "dead") =>
            /\ rows'[timers[h].rid].status \in Terminal
            /\ hist'[timers[h].rid].trans = 1]_vars

\* the race: the callback has delivered and is about to call
\* mark_reminder_complete, and a cancel of the same reminder has returned True
CancelDuringFire ==
    \E h \in Handles :
        /\ timers[h].pc = "mark"
        /\ rows[timers[h].rid].status = "cancelled"
        /\ hist[timers[h].rid].cancelRet

\* C2: delete_reminder, mark_reminder_complete and update_reminder never
\* change the status of a completed or cancelled row, and a row they make
\* completed or cancelled was pending (cleanup_old_reminders removes rows).
TerminalStatusIsFinal ==
    [][\A i \in Ids :
         /\ rows[i].status \in Terminal => rows'[i].status \in {rows[i].status, "absent"}
         /\ (rows'[i].status \in Terminal /\ rows'[i].status # rows[i].status)
               => rows[i].status = "pending"]_vars

\* mark_reminder_complete and delete_reminder have acted: a completed and a
\* cancelled row, on which every operation can be called next
CompletedAndCancelledRows ==
    \E i, j \in Ids : rows[i].status = "completed" /\ rows[j].status = "cancelled"

\* C3: a reminder cancelled before its callback started is not delivered
\* afterwards and has no entry in active_reminders.
CancelDisarms ==
    [][\A i \in Ids : rows[i].status = "cancelled" =>
            /\ sink'[i] = sink[i]
            /\ sink[i] = 0 => active_reminders[i] = 0]_vars

EntriesArePendingFutureRows ==
    (/\ main.pc = "idle"
     /\ \A h \in Handles : timers[h].pc \notin Running
     /\ \A h \in Handles : timers[h].pc = "waiting" => timers[h].time > now)
    => \A i \in Ids :
            active_reminders[i] # 0 <=> (rows[i].status = "pending" /\ rows[i].time > now)

\* the rows whose parent_reminder_id is i
Children(rs, i) == {c \in Ids : rs[c].status # "absent" /\ rs[c].parent = i}

\* C6: when the callback of a non-recurring reminder that was not cancelled
\* returns, and the store did not fail in it, the delivery sink has received
\* exactly one call for the reminder, its row is completed and no row has it
\* as parent.
NonRecurringFiresOnce ==
    [][\A h \in Handles :
        (/\ timers[h].pc \in Running
         /\ timers'[h].pc = "dead"
         /\ timers[h].rtype = None
         /\ timers[h].e # "DatabaseError"
         /\ rows[timers[h].rid].status # "cancelled")
        => /\ sink'[timers[h].rid] = 1
           /\ rows'[timers[h].rid].status = "completed"
           /\ Children(rows', timers[h].rid) = {}]_vars

\* C7: when the callback of a recurring reminder R without recurrence end
\* returns from mark_reminder_complete after a delivery, neither the store nor
\* the start of a thread failed in it and neither R nor a successor was
\* cancelled meanwhile, R is
\* completed and exactly one row has parent R: it is pending, has R's message,
\* priority, unit and interval, fires at calculate_next_occurrence of R's time
\* and is armed in active_reminders.
RecurringFireCreatesSuccessor ==
    [][\A h \in Handles :
        (/\ timers[h].pc = "mark"
         /\ timers'[h].pc = "dead"
         /\ timers[h].rtype # None
         /\ timers[h].e \notin {"DatabaseError", "RuntimeError"}
         /\ rows[timers[h].rid].status = "pending"
         /\ rows[timers[h].rid].recEnd = NoEnd
         /\ \A c \in Children(rows, timers[h].rid) : rows[c].status # "cancelled")
        => LET R == rows[timers[h].rid]
           IN /\ rows'[timers[h].rid].status = "completed"
              /\ \E c \in Ids :
                    /\ Children(rows', timers[h].rid) = {c}
                    /\ rows'[c].status = "pending"
                    /\ rows'[c].message = R.message
                    /\ rows'[c].priority = R.priority
                    /\ rows'[c].rtype = R.rtype
                    /\ rows'[c].interval = R.interval
                    /\ rows'[c].time = CalculateNextOccurrence(R.time, R.rtype, R.interval)
                    /\ active_reminders'[c] # 0
                    /\ timers'[active_reminders'[c]].pc = "waiting"
                    /\ timers'[active_reminders'[c]].rid = c]_vars

\* C8: save_reminder for a user whose reminder_count has reached
\* max_reminders raises ReminderLimitError, inserts no row and leaves the
\* user's reminder_count as it was.
QuotaRejectsSave ==
    [][\A u \in Users :
        (/\ users[u].exists
         /\ users[u].reminder_count >= users[u].max_reminders
         /\ ret' # ret
         /\ ret'.op = "save_reminder"
         /\ ret'.user = u)
        => /\ ret'.result = "ReminderLimitError"
           /\ rows' = rows
           /\ users'[u].reminder_count = users[u].reminder_count]_vars

\* save_reminder was refused for a user who holds max_reminders pending rows
SaveRefusedAtQuota ==
    /\ ret.op = "save_reminder"
    /\ ret.result = "ReminderLimitError"
    /\ users[ret.user].reminder_count = users[ret.user].max_reminders
    /\ Cardinality(Pending(rows, ret.user)) = users[ret.user].max_reminders

\* C9: for every user, reminder_count is the number of the user's pending rows.
CountIsPendingRows ==
    \A u \in Users :
        users[u].exists => users[u].reminder_count = Cardinality(Pending(rows, u))

\* a user with a pending, a completed and a cancelled row
CountAfterStatusChanges ==
    \E u \in Users :
        /\ users[u].reminder_count = 1
        /\ \E i, j \in Ids :
            /\ rows[i].user = u /\ rows[i].status = "completed"
            /\ rows[j].user = u /\ rows[j].status = "cancelled"

\* C10: when handle_missed_reminders has returned, every row that was pending
\* at its start is completed or has an entry in active_reminders with a
\* waiting timer.
SweepLeavesNoOrphan ==
    main.pc = "swept" =>
        \A i \in main.start :
            \/ rows[i].status = "completed"
            \/ /\ active_reminders[i] # 0
               /\ timers[active_reminders[i]].pc = "waiting"

\* the timers that wait for reminder i
Waiting(ts, i) == {h \in Handles : ts[h].pc = "waiting" /\ ts[h].rid = i}

\* C11: a run of handle_missed_reminders over a pending future reminder that
\* is armed already with one timer leaves it with one timer, delivers nothing
\* for it and does not change its row.
ResweepKeepsOneTimer ==
    [][\A i \in Ids :
        (/\ main.pc = "sweep"
         /\ rows[i].status = "pending"
         /\ rows[i].time > now
         /\ active_reminders[i] # 0
         /\ Cardinality(Waiting(timers, i)) = 1)
        => /\ Cardinality(Waiting(timers', i)) = 1
           /\ sink'[i] = sink[i]
           /\ rows'[i] = rows[i]]_vars

\* C12: when the delivery sink raised in the firing of a pending reminder, the
\* callback returns with the reminder's row completed.
SinkFailureStillCompletes ==
    [][\A h \in Handles :
        (/\ timers[h].pc = "exc"
         /\ timers[h].e = "TelegramError"
         /\ timers'[h].pc = "dead"
         /\ rows[timers[h].rid].status = "pending")
        => rows'[timers[h].rid].status = "completed"]_vars

\* C13: when the callback of a pending recurring reminder R returns from
\* mark_reminder_complete after save_reminder or schedule_reminder of the
\* successor raised (the warning has been sent), R is completed, no row has
\* parent R and the id the successor was to get has no entry and no timer.
FailedSuccessorLeavesNothing ==
    [][\A h \in Handles :
        (/\ timers[h].pc = "mark"
         /\ timers'[h].pc = "dead"
         /\ timers[h].e \in {"DatabaseError", "ReminderLimitError", "RuntimeError"}
         /\ rows[timers[h].rid].status = "pending")
        => /\ rows'[timers[h].rid].status = "completed"
           /\ Children(rows', timers[h].rid) = {}
           /\ \A c \in Ids : rows'[c].parent = timers[h].rid =>
                 /\ active_reminders'[c] = 0
                 /\ Waiting(timers', c) = {}]_vars

\* C14: when the callback of a recurring reminder R finds the next occurrence
\* later than R's recurrence_end_date, it goes on to mark_reminder_complete
\* and creates no row, no entry and no timer; when it returns from there, R
\* (if it was still pending) is completed, no other row has changed and no
\* entry or timer was added.
EndedSeriesHasNoSuccessor ==
    [][\A h \in Handles :
        LET t == timers[h]
            next_time == CalculateNextOccurrence(t.time, t.rtype, t.interval)
        IN /\ (/\ t.pc = "cleanup"
               /\ timers'[h].pc \notin {"cleanup", "exc"}
               /\ t.rtype # None
               /\ rows[t.rid].recEnd # NoEnd
               /\ next_time > rows[t.rid].recEnd)
              => /\ timers'[h].pc = "mark"
                 /\ rows' = rows
                 /\ \A g \in Handles \ {h} : timers'[g] = timers[g]
                 /\ \A i \in Ids \ {t.rid} : active_reminders'[i] = active_reminders[i]
           /\ (/\ t.pc = "mark"
               /\ timers'[h].pc = "dead"
               /\ t.rtype # None
               /\ t.succ = 0
               /\ t.e = None)
              => /\ rows[t.rid].status = "pending" => rows'[t.rid].status = "completed"
                 /\ \A i \in Ids \ {t.rid} : rows'[i] = rows[i]
                 /\ Children(rows', t.rid) = Children(rows, t.rid)
                 /\ active_reminders' = active_reminders
                 /\ \A g \in Handles \ {h} : timers'[g] = timers[g]]_vars

\* the callback of a recurring reminder whose next occurrence is past its end
\* has skipped the successor and is about to mark the reminder completed
SeriesEndedAtFire ==
    \E h \in Handles :
        /\ timers[h].pc = "mark"
        /\ timers[h].rtype # None
        /\ timers[h].succ = 0
        /\ timers[h].e = None
        /\ rows[timers[h].rid].status = "pending"
        /\ rows[timers[h].rid].recEnd # NoEnd
        /\ CalculateNextOccurrence(timers[h].time, timers[h].rtype, timers[h].interval)
              > rows[timers[h].rid].recEnd

\* C15: a reminder whose delay is zero or negative when handle_message calls
\* schedule_reminder for it is not left pending without a timer: when the
\* handler returns, a timer of the reminder waits or runs.
ZeroDelayIsDue ==
    [][(/\ main.pc = "create_insert"
        /\ main'.pc = "idle"
        /\ nextId' # nextId
        /\ main.a.time - now <= 0)
       => \E h \in Handles : timers'[h].pc # "dead" /\ timers'[h].rid = nextId]_vars

\* C16: every id that has an entry in active_reminders or a timer has a row in
\* the store; so the id of a save_reminder that raised, which got no row, has
\* no entry and no timer.
ArmedOnlyIfPersisted ==
    \A i \in Ids :
        (\/ active_reminders[i] # 0
         \/ \E h \in Handles : timers[h].pc # "dead" /\ timers[h].rid = i)
        => rows[i].status # "absent"

\* save_reminder of a successor has raised in a callback: the id it was called
\* with has no row, no entry and no timer, while another reminder is armed
SaveRaisedNothingArmed ==
    /\ nextId \in Ids
    /\ rows[nextId].status = "absent"
    /\ active_reminders[nextId] = 0
    /\ \E h \in Handles :
        /\ timers[h].pc = "warn"
        /\ timers[h].e \in {"ReminderLimitError", "DatabaseError"}
    /\ \E i \in Ids : active_reminders[i] # 0

\* C17: every timer that waits for a pending reminder fires at the time the
\* store holds for the reminder, also after an edit of the time.
ArmedTimeIsStoredTime ==
    \A i \in Ids : \A h \in Waiting(timers, i) :
        rows[i].status = "pending" => timers[h].time = rows[i].time

\* C18: a wrapped store operation makes at most 3 attempts, and when it ends
\* it has raised DatabaseError exactly when 3 attempts raised a storage error.
RetryRaisesIffExhausted ==
    [][(main.pc = "attempt" /\ main'.pc = "idle")
       => /\ main'.attempt < MaxRetries
          /\ ret'.result = "DatabaseError" <=> main'.errors = MaxRetries]_vars

\* C19: the successor of a daily or weekly reminder fires at the local
\* wall-clock time of day at which the reminder fired, also across the
\* daylight-saving transition of the zone.
SuccessorKeepsWallClock ==
    (main.pc = "done" /\ main.rtype \in {"day", "week"})
    => WallClock(main.next_time) = WallClock(main.last_time)

\* C20: when the day of month of the instant exceeds the length of the month
\* `interval` months later, calculate_next_occurrence yields the last day of
\* that month, at the same time of day.
MonthClampsToLastDay ==
    (main.pc = "done" /\ main.rtype = "month")
    => LET dt == DateOfDay(main.last_time \div DayLen)
           total == dt.y * 12 + (dt.m - 1) + main.interval
           ty == total \div 12
           tm == (total % 12) + 1
       IN dt.d > MonthRange(ty, tm)
          => /\ DateOfDay(main.next_time \div DayLen)
                  = [y |-> ty, m |-> tm, d |-> MonthRange(ty, tm)]
             /\ main.next_time % DayLen = main.last_time % DayLen

\* 31 January 2024 plus one month has given 29 February 2024
JanuaryToFebruary ==
    /\ main.pc = "done"
    /\ main.rtype = "month"
    /\ DateOfDay(main.last_time \div DayLen) = [y |-> 2024, m |-> 1, d |-> 31]
    /\ main.interval = 1
    /\ DateOfDay(main.next_time \div DayLen) = [y |-> 2024, m |-> 2, d |-> 29]

RECURSIVE SeriesRoot(_, _)
SeriesRoot(rs, i) == IF rs[i].parent = Null THEN i ELSE SeriesRoot(rs, rs[i].parent)

\* C22: whenever no handler, callback or sweep is in progress, every reminder
\* id is the parent of at most one row and every series (the rows chained by
\* parent id) has at most one pending row.
SeriesHasOneNext ==
    (/\ main.pc = "idle"
     /\ \A h \in Handles : timers[h].pc \notin Running)
    => \A i \in Ids :
            /\ Cardinality(Children(rows, i)) <= 1
            /\ Cardinality({j \in Ids : /\ rows[j].status = "pending"
                                        /\ SeriesRoot(rows, j) = i}) <= 1

\* C23: a callback and a time edit of the same reminder exclude each other,
\* so that the reminder is not delivered twice: a reminder that its callback
\* has marked completed is not handed to the delivery sink again.
FireExcludesEdit ==
    [][\A i \in Ids : sink'[i] > sink[i] => rows[i].status # "completed"]_vars

\* C24: a create request whose resolved time has passed is refused and
\* changes no row, no reminder_count, no entry and no timer; and every row
\* that handle_message inserts has a fire time not earlier than the clock.
PastRequestChangesNothing ==
    [][/\ (ret' # ret /\ ret'.result = "PastTime")
          => /\ rows' = rows
             /\ users' = users
             /\ nextId' = nextId
             /\ active_reminders' = active_reminders
             /\ timers' = timers
       /\ \A i \in Ids :
            (/\ rows[i].status = "absent"
             /\ rows'[i].status # "absent"
             /\ rows'[i].parent = Null)
            => rows'[i].time >= now']_vars

\* a request for a time that has passed was refused while a reminder is
\* pending and armed
PastRequestRefused ==
    /\ ret.op = "handle_message"
    /\ ret.result = "PastTime"
    /\ \E i \in Ids : rows[i].status = "pending" /\ active_reminders[i] # 0

\* C25: in a firing the entry is removed after the delivery sink was called,
\* and the successor of a recurring reminder is persisted and armed only
\* after the fired row was marked completed.
SuccessorAfterCompletion ==
    [][\A h \in Handles :
        /\ (timers[h].pc = "cleanup" /\ timers'[h].pc # "cleanup")
              => sink[timers[h].rid] >= 1
        /\ (timers[h].pc = "insert" /\ nextId' # nextId)
              => rows[timers[h].rid].status = "completed"]_vars

\* C26: when handle_missed_reminders has handled a pending recurring reminder
\* R without recurrence end whose time has passed, and nothing raised, R was
\* delivered once by the sweep, R is completed and exactly one row with parent
\* R was added: it is pending and armed with a waiting timer, however long
\* ago R's time was.
MissedRecurringGetsSuccessor ==
    [][(/\ main.pc = "sweep"
        /\ main.todo # << >>
        /\ main'.pc = "sweep"
        /\ main'.todo # main.todo
        /\ rows[Head(main.todo)].time < now
        /\ rows[Head(main.todo)].rtype # None
        /\ rows[Head(main.todo)].recEnd = NoEnd)
       => LET R == Head(main.todo)
          IN /\ sink'[R] = sink[R] + 1
             /\ rows'[R].status = "completed"
             /\ \E c \in Ids :
                   /\ Children(rows', R) \ Children(rows, R) = {c}
                   /\ rows'[c].status = "pending"
                   /\ active_reminders'[c] # 0
                   /\ timers'[active_reminders'[c]].pc = "waiting"
                   /\ timers'[active_reminders'[c]].rid = c]_vars

\* C27: after every start of the process handle_missed_reminders is entered
\* once, from main before start_polling, and has returned when the first
\* request is handled: no handler (timezone, create, cancel) takes a step
\* before the dispatcher polls, and polling starts only when the sweep has
\* returned.
SweepBeforeRequests ==
    [][/\ (\/ main'.pc = "create_insert" /\ main.pc # "create_insert"
           \/ \E u \in Users : users'[u].exists /\ ~users[u].exists
           \/ \E i \in Ids : hist'[i].cancelRet /\ ~hist[i].cancelRet
           \/ \E i \in Ids : rows'[i].status = "cancelled" /\ rows[i].status # "cancelled")
          => main.pc = "idle"
       /\ (main'.pc = "idle" /\ main.pc \notin {"idle", "create_insert"})
          => main.pc = "swept"
       /\ (main'.pc \in {"sweep", "swept"} /\ main.pc \notin {"sweep", "swept"})
          => main.pc = "boot"
       /\ (main'.pc = "boot" /\ main.pc # "boot") => boots' = boots + 1]_vars

\* the process was started again, its sweep has scheduled a pending reminder
\* and returned, and a create request is being handled
RequestAfterSecondSweep ==
    /\ boots = 1
    /\ main.pc = "create_insert"
    /\ \E h \in Handles : timers[h].pc = "waiting"

\* C28: when a callback ends in its exception handler with a storage failure
\* (of should_create_next_occurrence or mark_reminder_complete), the reminder
\* it fired is not left pending without a waiting timer.
StorageFailureLeavesNoOrphan ==
    [][\A h \in Handles :
        (/\ timers[h].pc = "exc"
         /\ timers[h].e = "DatabaseError"
         /\ timers'[h].pc = "dead")
        => ~(/\ rows'[timers[h].rid].status = "pending"
             /\ Waiting(timers', timers[h].rid) = {})]_vars

\* C29: a pass of a wrapped store operation that is retried, and a call that
\* ends by raising DatabaseError or ReminderLimitError, leave the rows and
\* every user's reminder_count as they were.
FailedCallWritesNothing ==
    [][(/\ main.pc = "attempt"
        /\ \/ main'.pc = "attempt"
           \/ ret'.result \in {"DatabaseError", "ReminderLimitError"})
       => /\ rows' = rows
          /\ users' = users]_vars

\* save_reminder for a user below the quota, while a reminder is pending, has
\* raised DatabaseError after three passes that raised sqlite3.Error: its id
\* has no row
SaveGaveUp ==
    /\ main.pc = "idle"
    /\ main.errors = MaxRetries
    /\ ret.op = "save_reminder"
    /\ ret.result = "DatabaseError"
    /\ SaveCheck(users, ret.user) = "ok"
    /\ rows[ret.id].status = "absent"
    /\ \E i \in Ids : rows[i].status = "pending"

\* C30: update_reminder changes no row but the one with the given id, and
\* that one only if it is pending and, when a user id is passed, owned by that
\* user; it returns True exactly when its UPDATE took such a row, and for a
\* completed, cancelled or absent id it returns False and leaves every row as
\* it was.
UpdateOnlyPending ==
    [][(main.pc = "call" /\ main'.pc = "idle")
       => LET row == rows[main.rid]
              owned == main.uid # None => row.user = main.uid
          IN /\ \A j \in Ids \ {main.rid} : rows'[j] = rows[j]
             /\ rows' # rows => (row.status = "pending" /\ owned)
             /\ rows' # rows => main'.result = "True"
             /\ main'.result = "True"
                   <=> (row.status = "pending" /\ owned /\ main.upd.set # {})
             /\ row.status # "pending"
                   => (main'.result = "False" /\ rows' = rows /\ users' = users)]_vars

\* update_reminder, given columns to set, has returned False for a completed
\* row while another row is pending
UpdateRefused ==
    /\ main.pc = "idle"
    /\ main.result = "False"
    /\ main.upd.set # {}
    /\ rows[main.rid].status = "completed"
    /\ \E j \in Ids : rows[j].status = "pending"

\* C31: every row of the store has a positive recurrence_interval exactly
\* when its recurrence_type is day, week or month, and no interval when it has
\* no recurrence_type.
IntervalIffRecurring ==
    \A i \in Ids :
        rows[i].status # "absent"
        => /\ rows[i].interval > 0 <=> rows[i].rtype \in {"day", "week", "month"}
           /\ rows[i].rtype = None => rows[i].interval = Null

\* C32: choosing 'No Recurrence' for a pending recurring reminder succeeds
\* and leaves the row without recurrence_type and without
\* recurrence_interval.
NoRecurrenceClears ==
    [][(/\ ret' # ret
        /\ ret'.op = "set_recur_none"
        /\ rows[ret'.id].status = "pending"
        /\ rows[ret'.id].rtype # None)
       => /\ ret'.result = "True"
          /\ rows'[ret'.id].rtype = None
          /\ rows'[ret'.id].interval = Null]_vars

\* C33: a cancel requested by a user who does not own the reminder fails and
\* leaves the row as it was: when every cancel comes from such a user, no row
\* changes its status to cancelled.
ForeignCancelRefused ==
    [][\A i \in Ids : rows'[i].status = "cancelled" => rows[i].status = "cancelled"]_vars

\* C34: every occurrence of a monthly series whose first occurrence is on
\* day d of its month falls on day d, or on the last day of its month when
\* the month is shorter.
MonthlySeriesKeepsDay ==
    main.rtype = "month"
    => LET d == DateOfDay(main.first \div DayLen).d
           dt == DateOfDay(main.last_time \div DayLen)
       IN dt.d = IF d < MonthRange(dt.y, dt.m) THEN d ELSE MonthRange(dt.y, dt.m)

\* C35: calculate_next_occurrence with unit month, for a date in month m of
\* year y and an interval of k months, yields a date in month
\* ((m - 1 + k) mod 12) + 1 of year y + floor((m - 1 + k) / 12).
MonthAndYearOfNext ==
    (main.pc = "done" /\ main.rtype = "month")
    => LET dt == DateOfDay(main.last_time \div DayLen)
           nd == DateOfDay(main.next_time \div DayLen)
       IN /\ nd.m = ((dt.m - 1 + main.interval) % 12) + 1
          /\ nd.y = dt.y + ((dt.m - 1 + main.interval) \div 12)

\* an interval of more than 12 months from a month m with m + k a multiple of
\* 12 has given a date in December
LongIntervalToDecember ==
    /\ main.pc = "done"
    /\ main.rtype = "month"
    /\ main.interval > 12
    /\ (DateOfDay(main.last_time \div DayLen).m + main.interval) % 12 = 0
    /\ DateOfDay(main.next_time \div DayLen).m = 12

\* C36: no user ever has more pending rows than max_reminders, also when a
\* create of the handler and a successor create of a callback interleave.
PendingWithinQuota ==
    \A u \in Users :
        users[u].exists => Cardinality(Pending(rows, u)) <= users[u].max_reminders

\* C37: the firing of a recurring reminder does not end its series for quota
\* reasons: when the user has at most max_reminders pending rows (the fired one
\* counted), save_reminder of the successor is not refused with
\* ReminderLimitError, and a callback that returns after that refusal has not
\* left the series without a successor.
FiringKeepsSeriesAtQuota ==
    [][\A h \in Handles :
        LET u == timers[h].user
        IN /\ (/\ timers[h].pc = "save"
               /\ timers'[h].pc # "save"
               /\ Cardinality(Pending(rows, u)) <= users[u].max_reminders)
              => timers'[h].e # "ReminderLimitError"
           /\ (/\ timers[h].pc = "mark"
               /\ timers'[h].pc = "dead"
               /\ timers[h].e = "ReminderLimitError"
               /\ Cardinality(Pending(rows, u)) <= users[u].max_reminders)
              => Cardinality(Pending(rows', u)) = Cardinality(Pending(rows, u))]_vars

\* C38: whenever no handler, callback or sweep is in progress, every row with
\* a parent id has a parent whose status is completed; in particular no
\* pending row has a cancelled parent.
ParentIsCompleted ==
    (/\ main.pc = "idle"
     /\ \A h \in Handles : timers[h].pc \notin Running)
    => \A i \in Ids :
            (rows[i].status # "absent" /\ rows[i].parent # Null)
            => rows[rows[i].parent].status = "completed"

\* C39: the recurrence end E of the first occurrence of a series bounds every
\* occurrence of it: the callback of any row of the series (any row chained
\* to the first one by parent ids) whose next occurrence is later than E does
\* not go on to save a successor, so a chain whose rows are all within E gets
\* no row with a time after E.
EndBoundsWholeSeries ==
    [][\A h \in Handles :
        LET t == timers[h]
            first == SeriesRoot(rows, t.rid)
            next_time == CalculateNextOccurrence(t.time, t.rtype, t.interval)
        IN (/\ t.pc = "cleanup"
            /\ timers'[h].pc # "cleanup"
            /\ t.rtype # None
            /\ rows[first].recEnd # NoEnd
            /\ t.time <= rows[first].recEnd
            /\ next_time > rows[first].recEnd)
           => timers'[h].pc # "save"]_vars

====
